---- MODULE Spec2Model ----
(***************************************************************************)
(* Model of api.py: the cold-email HTTP service.                           *)
(*                                                                         *)
(* State: the rate-limit file rate_limits.json, the in-memory archive      *)
(* saved_emails, the wall clock, and the one request that occupies the     *)
(* event loop.  The handlers are `async def` coroutines that never await:  *)
(* every call they make (file I/O, the provider call) is synchronous, so   *)
(* a handler runs on the single event loop of uvicorn.run from its first   *)
(* line to its response and no other handler runs in between.              *)
(*                                                                         *)
(* Time is counted in whole hours.  A calendar day of the model has        *)
(* HoursPerDay hours (a scaled calendar: the labels strftime produces      *)
(* depend only on the day and the hour of day).  The clock is monotone.    *)
(* Strings that the code formats or compares by content (session ids,      *)
(* email ids) are sequences of one-character strings.  An archive entry    *)
(* carries no "date", and the two results of get_analytics that read it    *)
(* (weekly_emails, email_over_time) are left out.  The prompt is not       *)
(* modelled: the provider library is a black box with two entry points,    *)
(* each of which may be absent, raise, or return with or without a text.   *)
(* A text is a sequence of words and whitespace characters.                *)
(***************************************************************************)
EXTENDS Integers, Sequences, FiniteSets, TLC

VARIABLES
    now,           \* datetime.now(), in hours since the epoch of the model
    rate_file,     \* the content of RATE_LIMIT_FILE
    saved_emails,  \* the module-level list saved_emails
    inflight,      \* the generate_email call that holds the event loop
    resp,          \* the response a handler has just produced, until it is sent
    accepted       \* history: hour -> session -> requests that passed the limiter

vars == <<now, rate_file, saved_emails, inflight, resp, accepted>>

---------------------------------------------------------------------------
(* Program constants *)

MAX_REQUESTS_PER_DAY == 15
MAX_REQUESTS_PER_HOUR == 5
HOUR_WINDOW_SECONDS == 3600
DAY_WINDOW_DAYS == 1
SESSION_RAND_MIN == 10000
SESSION_RAND_MAX == 99999
EMAIL_RAND_MIN == 1000
EMAIL_RAND_MAX == 9999
DEFAULT_LIMIT == 50
DEFAULT_OFFSET == 0
TOP_COMPANIES == 10

(* Bounds of the model *)

HoursPerDay == 3
MaxArchive == 3
SmallArchive == 1
MaxCompanyList == 6
MaxContentList == 2

---------------------------------------------------------------------------
(* Strings and dictionaries *)

Digit(d) ==
    CASE d = 0 -> "0" [] d = 1 -> "1" [] d = 2 -> "2" [] d = 3 -> "3"
      [] d = 4 -> "4" [] d = 5 -> "5" [] d = 6 -> "6" [] d = 7 -> "7"
      [] d = 8 -> "8" [] d = 9 -> "9"

RECURSIVE Str(_)
\* str(n) / f"{n}" of a non-negative integer: its decimal digits
Str(n) ==
    IF n < 10 THEN <<Digit(n)>> ELSE Str(n \div 10) \o <<Digit(n % 10)>>

\* dict.get(k, default)
Get(m, k, default) ==
    IF k \in DOMAIN m THEN m[k] ELSE default

\* m[k] = v
Put(m, k, v) ==
    [x \in (DOMAIN m) \cup {k} |-> IF x = k THEN v ELSE m[x]]

EmptyDict == [x \in {} |-> 0]

\* Python truthiness of an Optional[str]: None and "" are falsy
NoneValue == <<"None">>
Truthy(s) ==
    s # NoneValue /\ s # <<>>

---------------------------------------------------------------------------
(* Bucket labels *)

\* now.strftime("%Y-%m-%d")
DayLabel(t) ==
    <<t \div HoursPerDay>>

\* now.strftime("%Y-%m-%d-%H")
HourLabel(t) ==
    <<t \div HoursPerDay, t % HoursPerDay>>

\* datetime.strptime(day, "%Y-%m-%d"): midnight of that day
ParseDay(label) ==
    label[1] * HoursPerDay

\* datetime.strptime(h, "%Y-%m-%d-%H"): the start of that hour
ParseHour(label) ==
    label[1] * HoursPerDay + label[2]

---------------------------------------------------------------------------
(* RATE_LIMIT_FILE *)

EmptyTables == [daily |-> EmptyDict, hourly |-> EmptyDict]

AbsentFile == [exists |-> FALSE, parses |-> FALSE, data |-> EmptyTables]

\* json.load returns whatever JSON value the file holds
load_rate_limits(file) ==
    IF file.exists
    THEN IF file.parses THEN file.data ELSE EmptyTables
    ELSE EmptyTables

save_rate_limits(data) ==
    [exists |-> TRUE, parses |-> TRUE, data |-> data]

\* a file that is not JSON
UnparseableFile == [exists |-> TRUE, parses |-> FALSE, data |-> EmptyTables]

\* the JSON object {}: neither "daily" nor "hourly"
NoTablesFile == save_rate_limits(EmptyDict)

\* a daily bucket labelled like an hour, {"daily": {"0000-00-00-00": {}}, "hourly": {}}
BadDayLabelFile ==
    save_rate_limits([daily |-> (<<0, 0>> :> EmptyDict), hourly |-> EmptyDict])

\* an hourly bucket labelled like a day, {"daily": {}, "hourly": {"0000-00-00": {}}}
BadHourLabelFile ==
    save_rate_limits([daily |-> EmptyDict, hourly |-> (<<0>> :> EmptyDict)])

\* what RATE_LIMIT_FILE may hold when the service starts
FileContents ==
    {AbsentFile, UnparseableFile, NoTablesFile, BadDayLabelFile, BadHourLabelFile}

\* rate_limits["daily"] and rate_limits["hourly"] do not raise KeyError
has_tables(rate_limits) ==
    "daily" \in DOMAIN rate_limits /\ "hourly" \in DOMAIN rate_limits

\* datetime.strptime(day, "%Y-%m-%d") does not raise ValueError
day_label_parses(label) ==
    Len(label) = 1

\* datetime.strptime(h, "%Y-%m-%d-%H") does not raise ValueError
hour_label_parses(label) ==
    Len(label) = 2

---------------------------------------------------------------------------
(* Rate limiting *)

DailyMessage == "Request limit exceeded. Please try again tomorrow."
HourlyMessage == "Request limit exceeded. Please try again later."

\* a session's count summed over every bucket of a stored table
RECURSIVE TotalOf(_, _)
TotalOf(table, session) ==
    IF DOMAIN table = {} THEN 0
    ELSE LET k == CHOOSE x \in DOMAIN table : TRUE
             rest == [x \in (DOMAIN table) \ {k} |-> table[x]]
         IN  Get(table[k], session, 0) + TotalOf(rest, session)

StoredTotals(file, session) ==
    <<TotalOf(load_rate_limits(file).daily, session),
      TotalOf(load_rate_limits(file).hourly, session)>>

\* (now - day_dt).days: whole days, rounded down
DaysBetween(t, day_dt) ==
    (t - day_dt) \div HoursPerDay

\* (now - hour_dt).total_seconds(), for the earliest instant of hour t
SecondsBetween(t, hour_dt) ==
    (t - hour_dt) * 3600

\* the daily buckets check_rate_limit keeps
prune_daily(daily, t) ==
    [day \in {d \in DOMAIN daily : DaysBetween(t, ParseDay(d)) < DAY_WINDOW_DAYS}
        |-> daily[day]]

\* the hourly buckets check_rate_limit keeps
prune_hourly(hourly, t) ==
    [h \in {x \in DOMAIN hourly : SecondsBetween(t, ParseHour(x)) < HOUR_WINDOW_SECONDS}
        |-> hourly[h]]

\* rate_limits[table][label] = {} unless the label is present
ensure_bucket(table, label) ==
    IF label \in DOMAIN table THEN table ELSE Put(table, label, EmptyDict)

\* mutant: the limits compared with > (one request too many)
limit_verdict_off_by_one(daily_count, hourly_count) ==
    IF daily_count > MAX_REQUESTS_PER_DAY
    THEN [allowed |-> FALSE, message |-> DailyMessage]
    ELSE IF hourly_count > MAX_REQUESTS_PER_HOUR
    THEN [allowed |-> FALSE, message |-> HourlyMessage]
    ELSE [allowed |-> TRUE, message |-> ""]

\* mutant: the hourly limit is tested before the daily limit
limit_verdict_hourly_first(daily_count, hourly_count) ==
    IF hourly_count >= MAX_REQUESTS_PER_HOUR
    THEN [allowed |-> FALSE, message |-> HourlyMessage]
    ELSE IF daily_count >= MAX_REQUESTS_PER_DAY
    THEN [allowed |-> FALSE, message |-> DailyMessage]
    ELSE [allowed |-> TRUE, message |-> ""]

\* the verdict on the two counts
limit_verdict(daily_count, hourly_count) ==
    IF daily_count >= MAX_REQUESTS_PER_DAY
    THEN [allowed |-> FALSE, message |-> DailyMessage]
    ELSE IF hourly_count >= MAX_REQUESTS_PER_HOUR
    THEN [allowed |-> FALSE, message |-> HourlyMessage]
    ELSE [allowed |-> TRUE, message |-> ""]

\* mutant: the counts are summed over every stored bucket, pruned or not
check_rate_limit_all_buckets(session_id, t, file) ==
    limit_verdict(TotalOf(load_rate_limits(file).daily, session_id),
                  TotalOf(load_rate_limits(file).hourly, session_id))

\* check_rate_limit(session_id) called at time t; it saves nothing
check_rate_limit(session_id, t, file) ==
    LET today == DayLabel(t)
        hour == HourLabel(t)
        rate_limits == load_rate_limits(file)
        daily == ensure_bucket(prune_daily(rate_limits.daily, t), today)
        hourly == ensure_bucket(prune_hourly(rate_limits.hourly, t), hour)
        daily_count == Get(daily[today], session_id, 0)
        hourly_count == Get(hourly[hour], session_id, 0)
    IN  limit_verdict(daily_count, hourly_count)

\* check_rate_limit raises: a table is missing (KeyError) or a stored label
\* does not parse (ValueError); every stored label is parsed, kept or not
check_rate_limit_raises(t, file) ==
    LET rate_limits == load_rate_limits(file)
    IN  \/ ~has_tables(rate_limits)
        \/ \E day \in DOMAIN rate_limits.daily : ~day_label_parses(day)
        \/ \E h \in DOMAIN rate_limits.hourly : ~hour_label_parses(h)

\* increment_rate_limit raises: a table is missing (KeyError)
increment_rate_limit_raises(t, file) ==
    ~has_tables(load_rate_limits(file))

\* mutant: the counters are set to 1 instead of raised by 1
increment_rate_limit_overwrite(session_id, t, file) ==
    LET today == DayLabel(t)
        hour == HourLabel(t)
        rate_limits == load_rate_limits(file)
        daily == ensure_bucket(rate_limits.daily, today)
        hourly == ensure_bucket(rate_limits.hourly, hour)
    IN  save_rate_limits([daily |-> Put(daily, today, Put(daily[today], session_id, 1)),
                          hourly |-> Put(hourly, hour, Put(hourly[hour], session_id, 1))])

\* mutant: the hourly counter is raised twice
increment_rate_limit_twice(session_id, t, file) ==
    LET today == DayLabel(t)
        hour == HourLabel(t)
        rate_limits == load_rate_limits(file)
        daily == ensure_bucket(rate_limits.daily, today)
        hourly == ensure_bucket(rate_limits.hourly, hour)
        daily2 == Put(daily, today,
                      Put(daily[today], session_id, Get(daily[today], session_id, 0) + 1))
        hourly2 == Put(hourly, hour,
                       Put(hourly[hour], session_id, Get(hourly[hour], session_id, 0) + 2))
    IN  save_rate_limits([daily |-> daily2, hourly |-> hourly2])

\* increment_rate_limit(session_id) called at time t: the file it leaves
increment_rate_limit(session_id, t, file) ==
    LET today == DayLabel(t)
        hour == HourLabel(t)
        rate_limits == load_rate_limits(file)
        daily == ensure_bucket(rate_limits.daily, today)
        hourly == ensure_bucket(rate_limits.hourly, hour)
        daily2 == Put(daily, today,
                      Put(daily[today], session_id, Get(daily[today], session_id, 0) + 1))
        hourly2 == Put(hourly, hour,
                       Put(hourly[hour], session_id, Get(hourly[hour], session_id, 0) + 1))
    IN  save_rate_limits([daily |-> daily2, hourly |-> hourly2])

---------------------------------------------------------------------------
(* Requests and responses *)

\* the values randint(10000, 99999) and randint(1000, 9999) are drawn from
SessionRandInts == {SESSION_RAND_MIN, SESSION_RAND_MAX}
EmailRandInts == {EMAIL_RAND_MIN, EMAIL_RAND_MAX}

\* the session id a client sends: absent, empty, or a string of its choosing
ClientSession == Str(SESSION_RAND_MIN)
AnySessionInput == {NoneValue, <<>>, ClientSession}

\* every session id the limiter can see
AllSessions == {ClientSession} \cup {Str(r) : r \in SessionRandInts}

ValidRequest(company, session) ==
    [sender_company |-> "Pepsales", target_company |-> company,
     person_name |-> "Dana", role |-> "CTO", email_subject |-> "Quick intro",
     session_id |-> session]

\* the requests clients send: valid ones, and ones with one required field empty
Requests(sc) ==
    LET valid == {ValidRequest(c, s) : c \in sc.companies, s \in sc.session_inputs}
        base == ValidRequest(CHOOSE c \in sc.companies : TRUE, ClientSession)
    IN  valid
        \cup {[base EXCEPT !.sender_company = ""], [base EXCEPT !.target_company = ""],
              [base EXCEPT !.person_name = ""], [base EXCEPT !.role = ""],
              [base EXCEPT !.email_subject = ""]}

\* mutant: person_name is left out of the list
all_required_but_person(request) ==
    /\ request.sender_company # ""
    /\ request.target_company # ""
    /\ request.role # ""
    /\ request.email_subject # ""

\* all([...]) over the five required fields
all_required(request) ==
    /\ request.sender_company # ""
    /\ request.target_company # ""
    /\ request.person_name # ""
    /\ request.role # ""
    /\ request.email_subject # ""

\* request.session_id or str(random.randint(10000, 99999))
session_of(request, rnd) ==
    IF Truthy(request.session_id) THEN request.session_id ELSE Str(rnd)

\* the provider's message content: words and runs of whitespace
Space == " "
ProviderTexts == {<<Space, "Hi", Space, "Dana", Space>>}

RECURSIVE LStrip(_)
LStrip(text) ==
    IF text # <<>> /\ Head(text) = Space THEN LStrip(Tail(text)) ELSE text

RECURSIVE RStrip(_)
RStrip(text) ==
    IF text # <<>> /\ text[Len(text)] = Space
    THEN RStrip(SubSeq(text, 1, Len(text) - 1))
    ELSE text

\* content.strip()
Strip(text) ==
    RStrip(LStrip(text))

\* what a response carries, and what the request it answers asked for
\* (email_id, limit, offset) or caused (removed)
NoAnalytics == [total_emails |-> 0, avg_length |-> 0, top_companies |-> <<>>]

NoBody ==
    [email_text |-> <<>>, subject |-> "", removed |-> 0, email_id |-> <<>>,
     items |-> <<>>, limit |-> 0, offset |-> 0, calls |-> 0,
     analytics |-> NoAnalytics]

Response(op, status, detail, body) ==
    [op |-> op, status |-> status, detail |-> detail, body |-> body]

NoResponse == Response("none", 0, "", NoBody)

\* an exception no handler catches: the framework answers 500
UnhandledError(op) ==
    Response(op, 500, "Internal Server Error", NoBody)

\* stage: the provider call the handler is at, "primary" (line 208) or
\* "fallback" (line 218); calls: the create(...) calls it has made so far
NoRequest ==
    [active |-> FALSE, session |-> <<>>, request |-> ValidRequest("", <<>>),
     before |-> <<0, 0>>, stage |-> "none", calls |-> 0]

\* the event loop runs one coroutine at a time and no handler awaits
EventLoopFree ==
    ~inflight.active

\* the event loop takes the next request once the last response is sent
Idle ==
    EventLoopFree /\ resp = NoResponse

---------------------------------------------------------------------------
(* POST /api/email/generate *)

\* generate_email up to the rate-limit check: the error response, or
\* NoResponse when the request goes on to increment_rate_limit
generate_email_reject(request, rnd, t, file) ==
    IF ~all_required(request)
    THEN Response("generate", 400, "All fields are required", NoBody)
    ELSE IF check_rate_limit_raises(t, file)
    THEN UnhandledError("generate")
    ELSE LET verdict == check_rate_limit(session_of(request, rnd), t, file)
         IN  IF ~verdict.allowed
             THEN Response("generate", 429, verdict.message, NoBody)
             ELSE NoResponse

\* the instants at which increment_rate_limit may read the clock after
\* check_rate_limit read it at `now`
IncrementTimes(sc) ==
    {t \in {now, now + 1} : t <= sc.last_hour}

\* the random numbers line 170 may draw for this request
SessionDraws(request) ==
    IF Truthy(request.session_id) THEN {SESSION_RAND_MIN} ELSE SessionRandInts

Bump(history, t, session) ==
    Put(history, t,
        Put(Get(history, t, EmptyDict), session,
            Get(Get(history, t, EmptyDict), session, 0) + 1))

\* mutant: the rejected request is counted as well
on_rate_limited_counts(file, session_id, t) ==
    increment_rate_limit(session_id, t, file)

\* what the 429 of line 175 does to the rate-limit file: nothing
on_rate_limited(file, session_id, t) ==
    file

\* validation, session id, check_rate_limit, increment_rate_limit, and the
\* entry into the provider call
GenerateBegin(sc) ==
    /\ Idle
    /\ \E request \in Requests(sc) :
       \E rnd \in SessionDraws(request) :
       \E t_inc \in IncrementTimes(sc) :
         LET session == session_of(request, rnd)
             reply == generate_email_reject(request, rnd, now, rate_file)
         IN  IF reply # NoResponse
             THEN /\ resp' = reply
                  /\ rate_file' = IF reply.status = 429
                                  THEN on_rate_limited(rate_file, session, now)
                                  ELSE rate_file
                  /\ UNCHANGED <<now, saved_emails, inflight, accepted>>
             ELSE /\ rate_file' = increment_rate_limit(session, t_inc, rate_file)
                  /\ now' = t_inc
                  /\ accepted' = Bump(accepted, t_inc, session)
                  /\ inflight' = [active |-> TRUE,
                                  session |-> session, request |-> request,
                                  before |-> StoredTotals(rate_file, session),
                                  stage |-> "primary", calls |-> 0]
                  /\ UNCHANGED <<saved_emails, resp>>

\* f"{len(saved_emails) + 1}_{random.randint(1000, 9999)}"
email_id_of(count, suffix) ==
    Str(count + 1) \o <<"_">> \o Str(suffix)

\* mutant: the recipient and the company are taken from the wrong fields
new_entry_wrong_fields(request, email_id, response_text) ==
    [id |-> email_id, recipient |-> request.role,
     company |-> request.sender_company, subject |-> request.email_subject,
     content |-> response_text]

\* the entry line 229 appends
new_entry(request, email_id, response_text) ==
    [id |-> email_id, recipient |-> request.person_name,
     company |-> request.target_company, subject |-> request.email_subject,
     content |-> response_text]

\* the create(...) call the handler is at returns a message with a text:
\* the entry is appended, 200
GenerationSucceeds(sc) ==
    /\ inflight.active
    /\ Len(saved_emails) < sc.max_archive    \* the scope's bound on the archive
    /\ \E content \in ProviderTexts, suffix \in EmailRandInts :
         LET response_text == Strip(content)
             email_id == email_id_of(Len(saved_emails), suffix)
         IN  /\ saved_emails' = Append(saved_emails,
                                       new_entry(inflight.request, email_id, response_text))
             /\ resp' = Response("generate", 200, "",
                                 [NoBody EXCEPT
                                    !.email_text = response_text,
                                    !.subject = inflight.request.email_subject,
                                    !.calls = inflight.calls + 1])
    /\ inflight' = NoRequest
    /\ UNCHANGED <<now, rate_file, accepted>>

\* mutant: the failed request's increment is taken back
on_generation_error_rollback(file, session_id, t) ==
    LET rate_limits == load_rate_limits(file)
        daily == rate_limits.daily
        hourly == rate_limits.hourly
        today == DayLabel(t)
        hour == HourLabel(t)
    IN  IF today \in DOMAIN daily /\ hour \in DOMAIN hourly
        THEN save_rate_limits(
               [daily |-> Put(daily, today,
                              Put(daily[today], session_id,
                                  Get(daily[today], session_id, 1) - 1)),
                hourly |-> Put(hourly, hour,
                               Put(hourly[hour], session_id,
                                   Get(hourly[hour], session_id, 1) - 1))])
        ELSE file

\* what `except Exception` does to the rate-limit file: nothing
on_generation_error(file, session_id, t) ==
    file

\* the create(...) calls a step of the try block may have made: the call
\* is not made when the attribute lookup before it raises (client.chat in
\* an older library, client.ChatCompletion in a newer one)
CallsMade == {0, 1}

\* the first try block raises AttributeError, either before the call (no
\* client.chat) or after it returned (content is None, so .strip() raises):
\* the handler goes on to the call of line 218
ProviderFallback(sc) ==
    /\ inflight.active
    /\ inflight.stage = "primary"
    /\ \E made \in CallsMade :
         inflight' = [inflight EXCEPT !.stage = "fallback", !.calls = @ + made]
    /\ UNCHANGED <<now, rate_file, saved_emails, resp, accepted>>

\* an exception reaches `except Exception`: 500.  At line 208 it is an
\* exception of the call other than AttributeError; at line 218 it is any
\* exception, of the attribute lookup, of the call or of .strip()
GenerationFails(sc) ==
    /\ inflight.active
    /\ \E made \in (IF inflight.stage = "primary" THEN {1} ELSE CallsMade) :
         resp' = Response("generate", 500, "Error generating email",
                          [NoBody EXCEPT !.calls = inflight.calls + made])
    /\ rate_file' = on_generation_error(rate_file, inflight.session, now)
    /\ inflight' = NoRequest
    /\ UNCHANGED <<now, saved_emails, accepted>>

---------------------------------------------------------------------------
(* DELETE /api/emails/{email_id} *)

AbsentId == email_id_of(-1, EMAIL_RAND_MIN)

\* the ids a client may name: those in the archive, one no entry ever had,
\* and the ids the scope lets it remember from earlier
DeleteIds(sc) ==
    {saved_emails[i].id : i \in 1..Len(saved_emails)} \cup {AbsentId} \cup sc.stale_ids

\* the ids an archive of at most max_archive entries can assign
AssignableIds(max_archive) ==
    {email_id_of(count, suffix) : count \in 0..(max_archive - 1), suffix \in EmailRandInts}

\* [email for email in saved_emails if email["id"] != email_id]
without_id(emails, email_id) ==
    SelectSeq(emails, LAMBDA email : email.id # email_id)

\* mutant: the comparison of the two lengths is left out
delete_email_no_check(emails, email_id) ==
    LET kept == without_id(emails, email_id)
    IN  [saved_emails |-> kept,
         resp |-> Response("delete", 200, "Email deleted successfully",
                           [NoBody EXCEPT !.removed = Len(emails) - Len(kept),
                                          !.email_id = email_id])]

\* the body of delete_email: the archive it leaves and its response
delete_email(emails, email_id) ==
    LET original_count == Len(emails)
        kept == without_id(emails, email_id)
    IN  [saved_emails |-> kept,
         resp |-> IF Len(kept) = original_count
                  THEN Response("delete", 404, "Email not found",
                                [NoBody EXCEPT !.email_id = email_id])
                  ELSE Response("delete", 200, "Email deleted successfully",
                                [NoBody EXCEPT !.removed = original_count - Len(kept),
                                               !.email_id = email_id])]

DeleteEmail(sc) ==
    /\ Idle
    /\ \E email_id \in DeleteIds(sc) :
         /\ saved_emails' = delete_email(saved_emails, email_id).saved_emails
         /\ resp' = delete_email(saved_emails, email_id).resp
    /\ UNCHANGED <<now, rate_file, inflight, accepted>>

---------------------------------------------------------------------------
(* GET /api/emails/saved *)

Min(a, b) ==
    IF a < b THEN a ELSE b

Max(a, b) ==
    IF a > b THEN a ELSE b

\* the index Python's slicing makes of i for a list of length n
slice_index(i, n) ==
    IF i < 0
    THEN (IF i + n < 0 THEN 0 ELSE i + n)
    ELSE (IF i > n THEN n ELSE i)

\* seq[start:end]
slice(seq, start, end) ==
    LET lo == slice_index(start, Len(seq))
        hi == slice_index(end, Len(seq))
    IN  IF lo >= hi THEN <<>> ELSE SubSeq(seq, lo + 1, hi)

\* the body of get_saved_emails
get_saved_emails(emails, limit, offset) ==
    LET start == Min(offset, Len(emails))
        end == Min(offset + limit, Len(emails))
    IN  slice(emails, start, end)

\* the query parameters clients send; both are any int to the handler
Limits == {-1, 1, DEFAULT_LIMIT}
Offsets == {-1, DEFAULT_OFFSET, 1}

GetSavedEmails(sc) ==
    /\ Idle
    /\ \E limit \in Limits, offset \in Offsets :
         resp' = Response("list", 200, "",
                          [NoBody EXCEPT
                             !.items = get_saved_emails(saved_emails, limit, offset),
                             !.limit = limit, !.offset = offset])
    /\ UNCHANGED <<now, rate_file, saved_emails, inflight, accepted>>

---------------------------------------------------------------------------
(* GET /api/analytics *)

\* the length of the run of non-whitespace characters a text starts with
RECURSIVE RunLength(_)
RunLength(text) ==
    IF text = <<>> \/ Head(text) = Space THEN 0 ELSE 1 + RunLength(Tail(text))

\* mutant: split(" "), which cuts at every single blank
RECURSIVE split_at_each_blank(_)
split_at_each_blank(text) ==
    LET n == RunLength(text)
    IN  IF n = Len(text) THEN <<text>>
        ELSE <<SubSeq(text, 1, n)>> \o split_at_each_blank(SubSeq(text, n + 2, Len(text)))

\* content.split(): the maximal runs of non-whitespace characters
RECURSIVE split(_)
split(text) ==
    IF text = <<>> THEN <<>>
    ELSE IF Head(text) = Space THEN split(Tail(text))
    ELSE LET n == RunLength(text)
         IN  <<SubSeq(text, 1, n)>> \o split(SubSeq(text, n + 1, Len(text)))

\* the loop of lines 294-296
RECURSIVE total_words(_)
total_words(emails) ==
    IF emails = <<>> THEN 0
    ELSE Len(split(Head(emails).content)) + total_words(Tail(emails))

\* company_counts[company] = company_counts.get(company, 0) + 1, on a dict
\* kept as the list of its items in insertion order
count_company(items, company) ==
    IF \E i \in 1..Len(items) : items[i].company = company
    THEN [i \in 1..Len(items) |->
            IF items[i].company = company
            THEN [items[i] EXCEPT !.count = @ + 1]
            ELSE items[i]]
    ELSE Append(items, [company |-> company, count |-> 1])

\* the loop of lines 320-321 over the companies of emails[1..n]
RECURSIVE company_counts(_, _)
company_counts(emails, n) ==
    IF n = 0 THEN <<>>
    ELSE count_company(company_counts(emails, n - 1), emails[n].company)

\* one item put into a list sorted by descending count, behind its equals
insert_by_count(sorted_items, item) ==
    LET ahead == Cardinality({i \in 1..Len(sorted_items) :
                              sorted_items[i].count >= item.count})
    IN  SubSeq(sorted_items, 1, ahead) \o <<item>>
          \o SubSeq(sorted_items, ahead + 1, Len(sorted_items))

\* mutant: sorted(..., key=count)[::-1], which turns the equals around
RECURSIVE sorted_ascending_reversed(_, _)
sorted_ascending_reversed(items, n) ==
    IF n = 0 THEN <<>>
    ELSE LET rest == sorted_ascending_reversed(items, n - 1)
             ahead == Cardinality({i \in 1..Len(rest) : rest[i].count > items[n].count})
         IN  SubSeq(rest, 1, ahead) \o <<items[n]>> \o SubSeq(rest, ahead + 1, Len(rest))

\* sorted(items, key=lambda x: x[1], reverse=True) of items[1..n]: stable
RECURSIVE sorted_by_count(_, _)
sorted_by_count(items, n) ==
    IF n = 0 THEN <<>>
    ELSE insert_by_count(sorted_by_count(items, n - 1), items[n])

\* the body of get_analytics (weekly_emails and email_over_time, which read
\* the entries' dates, are left out)
get_analytics(emails) ==
    IF emails = <<>>
    THEN [total_emails |-> 0, avg_length |-> 0, top_companies |-> <<>>]
    ELSE LET counts == company_counts(emails, Len(emails))
             ranked == sorted_by_count(counts, Len(counts))
         IN  [total_emails |-> Len(emails),
              avg_length |-> total_words(emails) \div Max(1, Len(emails)),
              top_companies |-> SubSeq(ranked, 1, Min(TOP_COMPANIES, Len(ranked)))]

GetAnalytics(sc) ==
    /\ Idle
    /\ resp' = Response("analytics", 200, "",
                        [NoBody EXCEPT !.analytics = get_analytics(saved_emails)])
    /\ UNCHANGED <<now, rate_file, saved_emails, inflight, accepted>>

---------------------------------------------------------------------------
(* The response and the clock *)

\* the response leaves for the client
Respond(sc) ==
    /\ resp # NoResponse
    /\ resp' = NoResponse
    /\ UNCHANGED <<now, rate_file, saved_emails, inflight, accepted>>

\* an hour passes; a handler's return and its response are one instant
Tick(sc) ==
    /\ resp = NoResponse
    /\ now < sc.last_hour
    /\ now' = now + 1
    /\ UNCHANGED <<rate_file, saved_emails, inflight, resp, accepted>>

---------------------------------------------------------------------------
(* Scopes: what the environment does in one specification *)

\* one client session over a day and the first hour of the next day
RateScope ==
    [first_hour |-> 0, last_hour |-> HoursPerDay, max_archive |-> SmallArchive,
     session_inputs |-> {ClientSession}, companies |-> {"Acme"},
     files |-> {AbsentFile}, stale_ids |-> {}]

\* clients with and without a session id, over the last hour of a day and
\* the first hour of the next
SessionScope ==
    [first_hour |-> HoursPerDay - 1, last_hour |-> HoursPerDay, max_archive |-> SmallArchive,
     session_inputs |-> AnySessionInput, companies |-> {"Acme"},
     files |-> {AbsentFile}, stale_ids |-> {}]

\* one client session filling and emptying the archive
ArchiveScope ==
    [first_hour |-> HoursPerDay - 1, last_hour |-> HoursPerDay,
     max_archive |-> MaxArchive,
     session_inputs |-> {ClientSession}, companies |-> {"Acme"},
     files |-> {AbsentFile}, stale_ids |-> AssignableIds(MaxArchive)]

\* one client session against every content the file may start with
StoreScope ==
    [first_hour |-> HoursPerDay - 1, last_hour |-> HoursPerDay,
     max_archive |-> SmallArchive,
     session_inputs |-> {ClientSession}, companies |-> {"Acme"},
     files |-> FileContents, stale_ids |-> {}]

---------------------------------------------------------------------------
(* Specifications *)

InitIn(sc) ==
    /\ now = sc.first_hour
    /\ rate_file \in sc.files
    /\ saved_emails = <<>>
    /\ inflight = NoRequest
    /\ resp = NoResponse
    /\ accepted = EmptyDict

NextIn(sc) ==
    \/ GenerateBegin(sc)
    \/ GenerationSucceeds(sc)
    \/ ProviderFallback(sc)
    \/ GenerationFails(sc)
    \/ DeleteEmail(sc)
    \/ Respond(sc)
    \/ Tick(sc)

Init == InitIn(RateScope)
Next == NextIn(RateScope)
Spec == Init /\ [][Next]_vars

InitSession == InitIn(SessionScope)
NextSession == NextIn(SessionScope)
SpecSession == InitSession /\ [][NextSession]_vars

InitArchive == InitIn(ArchiveScope)
NextArchive ==
    \/ NextIn(ArchiveScope)
    \/ GetSavedEmails(ArchiveScope)
    \/ GetAnalytics(ArchiveScope)
SpecArchive == InitArchive /\ [][NextArchive]_vars

\* the archives the analytics are taken of: what generate requests for these
\* companies, answered with these texts, leave behind
FewCompanies == {"A", "B", "C"}
ManyCompanies == <<"A", "B", "C", "D", "E", "F", "G", "H", "I", "J", "K", "L">>
Contents ==
    {<<>>, <<"ab", "c">>, <<"a", Space, Space, "b", Space, "c">>,
     <<"a", Space, "b", Space, "c", Space, "d", Space, "e">>}

SeqsUpTo(S, n) ==
    UNION {[1..k -> S] : k \in 0..n}

ArchiveOf(companies, contents) ==
    [i \in 1..Len(companies) |->
        new_entry(ValidRequest(companies[i], ClientSession),
                  email_id_of(i - 1, EMAIL_RAND_MIN), contents[i])]

AnalyticsArchives ==
    {ArchiveOf(cs, [i \in 1..Len(cs) |-> <<"Hi">>]) :
        cs \in SeqsUpTo(FewCompanies, MaxCompanyList)}
    \cup {ArchiveOf([i \in 1..Len(ts) |-> "A"], ts) :
            ts \in SeqsUpTo(Contents, MaxContentList)}
    \cup {ArchiveOf(SubSeq(ManyCompanies, 1, n) \o tail,
                    [i \in 1..(n + Len(tail)) |-> <<"Hi">>]) :
            n \in (TOP_COMPANIES - 1)..(TOP_COMPANIES + 2),
            tail \in SeqsUpTo({"A", "K", "L"}, 2)}

InitAnalytics ==
    /\ now = 0
    /\ rate_file = AbsentFile
    /\ saved_emails \in AnalyticsArchives
    /\ inflight = NoRequest
    /\ resp = NoResponse
    /\ accepted = EmptyDict

NextAnalytics ==
    \/ GetAnalytics(ArchiveScope)
    \/ Respond(ArchiveScope)

SpecAnalytics == InitAnalytics /\ [][NextAnalytics]_vars

InitStore == InitIn(StoreScope)
NextStore == NextIn(StoreScope)
SpecStore == InitStore /\ [][NextStore]_vars

---------------------------------------------------------------------------
(* Properties *)

\* the hours of the model
Hours == 0..HoursPerDay

\* the hours of the calendar day that hour t lies in
HoursOfDay(t) ==
    {u \in Hours : u \div HoursPerDay = t \div HoursPerDay}

\* requests of a session that passed the limiter in hour t
AcceptedInHour(t, session) ==
    Get(Get(accepted, t, EmptyDict), session, 0)

RECURSIVE AcceptedInHours(_, _)
AcceptedInHours(hours, session) ==
    IF hours = {} THEN 0
    ELSE LET t == CHOOSE u \in hours : TRUE
         IN  AcceptedInHour(t, session) + AcceptedInHours(hours \ {t}, session)

\* the reply of the limiter to a complete request of this session, sent now
LimiterReply(session) ==
    generate_email_reject(ValidRequest("Acme", session), SESSION_RAND_MIN, now, rate_file)

\* C1: a session with fewer than 5 accepted generations in the current hour
\* and fewer than 15 in the current day is let through by the limiter; the
\* 6th request of an hour is answered 429 with the hourly message and the
\* 16th of a day 429 with the daily message.
C1_QuotaDecision ==
    \A session \in AllSessions :
        LET k_hour == AcceptedInHour(now, session)
            k_day == AcceptedInHours(HoursOfDay(now), session)
            reply == LimiterReply(session)
        IN  /\ (k_hour < 5 /\ k_day < 15) => reply = NoResponse
            /\ k_day >= 15 =>
                 reply = Response("generate", 429, DailyMessage, NoBody)
            /\ (k_hour >= 5 /\ k_day < 15) =>
                 reply = Response("generate", 429, HourlyMessage, NoBody)

\* C1 witness: the 6th request of an hour has just been answered 429
C1_Witness ==
    /\ resp = Response("generate", 429, HourlyMessage, NoBody)
    /\ AcceptedInHour(now, ClientSession) = 5
    /\ AcceptedInHours(HoursOfDay(now), ClientSession) = 10

\* C2: the entries of the archive have pairwise distinct ids
C2_UniqueIds ==
    \A i, j \in 1..Len(saved_emails) :
        i # j => saved_emails[i].id # saved_emails[j].id

\* C3: a delete_email that finds its id removes exactly one entry
C3_DeleteRemovesOne ==
    (resp.op = "delete" /\ resp.status = 200) => resp.body.removed = 1

\* a request that ends without a 200 ends in the 500 of line 244, with the
\* archive untouched and the stored totals one above those before it
C4_Step ==
    (inflight.active /\ ~inflight'.active /\ resp'.status # 200) =>
        /\ resp'.status = 500
        /\ resp'.detail = "Error generating email"
        /\ saved_emails' = saved_emails
        /\ StoredTotals(rate_file', inflight.session)
             = <<inflight.before[1] + 1, inflight.before[2] + 1>>

\* C4: a generate_email whose provider call fails answers 500, leaves the
\* archive as it was, and leaves the session's stored counts exactly one
\* above what they were before the request: the increment made before the
\* call is neither taken back nor made twice.
C4_FailureKeepsOneIncrement ==
    [][C4_Step]_vars

\* C4 witness: a failed generation has been answered 500 with an empty
\* archive and the session counted once more
C4_Witness ==
    /\ resp.op = "generate"
    /\ resp.status = 500
    /\ saved_emails = <<>>
    /\ StoredTotals(rate_file, ClientSession) = <<3, 3>>

\* C5: while a generate_email waits for the provider, another request can
\* be started
C5_StalledCallDoesNotWedge ==
    inflight.active =>
        ENABLED (DeleteEmail(RateScope) \/ GenerateBegin(RateScope))

\* the count the file stores for a session in the hourly bucket of hour t
StoredHourly(file, t, session) ==
    Get(Get(load_rate_limits(file).hourly,
            <<t \div HoursPerDay, t % HoursPerDay>>, EmptyDict), session, 0)

\* the count the file stores for a session in the daily bucket of hour t
StoredDaily(file, t, session) ==
    Get(Get(load_rate_limits(file).daily, <<t \div HoursPerDay>>, EmptyDict), session, 0)

ExpiredHour(label) ==
    label[1] * HoursPerDay + label[2] + 1 <= now

\* a bucket whose day began at least a day before now
ExpiredDay(label) ==
    (label[1] + 1) * HoursPerDay <= now

\* the file without its expired buckets
WithoutExpired(file) ==
    LET tables == load_rate_limits(file)
    IN  [file EXCEPT !.data =
            [daily |-> [d \in {x \in DOMAIN tables.daily : ~ExpiredDay(x)}
                          |-> tables.daily[d]],
             hourly |-> [h \in {x \in DOMAIN tables.hourly : ~ExpiredHour(x)}
                           |-> tables.hourly[h]]]]

\* C7: counts in expired buckets do not reach check_rate_limit's decision:
\* the decision is the one taken on the file without its expired buckets,
\* and a session whose only exhausted buckets are expired ones is allowed.
C7_ExpiredBucketsIgnored ==
    \A session \in AllSessions :
        LET tables == load_rate_limits(rate_file)
        IN  /\ check_rate_limit(session, now, rate_file)
                 = check_rate_limit(session, now, WithoutExpired(rate_file))
            /\ ( /\ \A h \in DOMAIN tables.hourly :
                      Get(tables.hourly[h], session, 0) >= 5 => ExpiredHour(h)
                 /\ \A d \in DOMAIN tables.daily :
                      Get(tables.daily[d], session, 0) >= 15 => ExpiredDay(d) )
               => check_rate_limit(session, now, rate_file).allowed

\* C7 witness: a request has been accepted for a session that holds 15 in
\* yesterday's daily bucket and 5 in an hourly bucket of yesterday
C7_Witness ==
    /\ inflight.active
    /\ inflight.before = <<15, 15>>
    /\ StoredDaily(rate_file, 0, inflight.session) = 15
    /\ StoredHourly(rate_file, 0, inflight.session) = 5
    /\ StoredDaily(rate_file, now, inflight.session) = 1

\* C8: the daily limit is tested first.  With the daily count at 15 or more
\* and the hourly count at 5 or more the rejection carries the daily
\* message; the hourly message is given exactly when the hourly count is 5
\* or more and the daily count is below 15; the two messages differ.
C8_DailyBeforeHourly ==
    /\ DailyMessage # HourlyMessage
    /\ \A session \in AllSessions :
         LET daily_count == StoredDaily(rate_file, now, session)
             hourly_count == StoredHourly(rate_file, now, session)
             verdict == check_rate_limit(session, now, rate_file)
         IN  /\ (daily_count >= 15 /\ hourly_count >= 5) =>
                  (~verdict.allowed /\ verdict.message = DailyMessage)
             /\ verdict.message = HourlyMessage
                  <=> (hourly_count >= 5 /\ daily_count < 15)
             /\ verdict.message = DailyMessage <=> daily_count >= 15

\* C8 witness: a request has been answered 429 with the daily message while
\* the session's hourly count also stood at its limit
C8_Witness ==
    /\ resp = Response("generate", 429, DailyMessage, NoBody)
    /\ StoredDaily(rate_file, now, ClientSession) >= 15
    /\ StoredHourly(rate_file, now, ClientSession) >= 5

\* every bucket label of the model
DayLabels == {<<d>> : d \in 0..1}
HourLabels == {<<d, h>> : d \in 0..1, h \in 0..(HoursPerDay - 1)}

CountIn(table, label, session) ==
    Get(Get(table, label, EmptyDict), session, 0)

\* one step of the rate-limit file, as C9 states it
C9_Step ==
    LET old == load_rate_limits(rate_file)
        new == load_rate_limits(rate_file')
        begins == ~inflight.active /\ inflight'.active
        today == <<now' \div HoursPerDay>>
        hour == <<now' \div HoursPerDay, now' % HoursPerDay>>
    IN  /\ DOMAIN old.daily \subseteq DOMAIN new.daily
        /\ DOMAIN old.hourly \subseteq DOMAIN new.hourly
        /\ \A session \in AllSessions :
             /\ \A d \in DayLabels :
                  CountIn(new.daily, d, session) >= CountIn(old.daily, d, session)
             /\ \A h \in HourLabels :
                  CountIn(new.hourly, h, session) >= CountIn(old.hourly, h, session)
        /\ begins <=> rate_file' # rate_file
        /\ begins =>
             \A session \in AllSessions :
               /\ \A d \in DayLabels :
                    CountIn(new.daily, d, session)
                      = CountIn(old.daily, d, session)
                        + (IF d = today /\ session = inflight'.session THEN 1 ELSE 0)
               /\ \A h \in HourLabels :
                    CountIn(new.hourly, h, session)
                      = CountIn(old.hourly, h, session)
                        + (IF h = hour /\ session = inflight'.session THEN 1 ELSE 0)

\* C9: the stored tables change only when a request is accepted, once per
\* accepted request: that step raises the session's count in the daily and
\* in the hourly bucket of the clock's reading by exactly 1 and changes no
\* other count; no step lowers a count or drops a bucket.
C9_OneIncrementPerRequest ==
    [][C9_Step]_vars

\* C9 witness: a request has just been accepted for a session that already
\* had counts, while another session has counts of its own
C9_Witness ==
    /\ inflight.active
    /\ inflight.before = <<2, 2>>
    /\ StoredTotals(rate_file, inflight.session) = <<3, 3>>
    /\ \E other \in AllSessions \ {inflight.session} :
         StoredTotals(rate_file, other) = <<1, 1>>

\* C10: a complete request that carries no session id is not answered 429,
\* whichever id line 170 draws for it
C10_AnonymousNeverLimited ==
    \A missing \in {NoneValue, <<>>}, rnd \in SessionRandInts :
        generate_email_reject(ValidRequest("Acme", missing), rnd, now, rate_file).status
          # 429

\* C11: whatever RATE_LIMIT_FILE holds when the service starts (nothing,
\* text that is not JSON, JSON without the two tables, JSON with a bucket
\* label of the wrong format), the store reads as a usable pair of tables,
\* check_rate_limit and increment_rate_limit do not raise, and so no
\* generate request that reaches the limiter is answered with the 500 of an
\* unhandled exception.
C11_StoreToleratesCorruptFile ==
    (resp.op = "generate" /\ resp.status # 400) =>
        /\ has_tables(load_rate_limits(rate_file))
        /\ ~check_rate_limit_raises(now, rate_file)
        /\ ~increment_rate_limit_raises(now, rate_file)
        /\ resp # UnhandledError("generate")

\* the entries at the positions offset .. offset+limit-1 that exist, oldest
\* first (positions count from 0)
Window(emails, offset, limit) ==
    LET inside == {p \in 1..Len(emails) : offset <= p - 1 /\ p - 1 <= offset + limit - 1}
    IN  IF inside = {} THEN <<>>
        ELSE SubSeq(emails,
                    CHOOSE p \in inside : \A q \in inside : p <= q,
                    CHOOSE p \in inside : \A q \in inside : q <= p)

\* C12: get_saved_emails(limit, offset) answers 200 with the entries of
\* the archive at positions offset .. offset+limit-1, clamped to the
\* archive, oldest first; an offset at or beyond the length gives the empty
\* list; on an archive of one entry, limit 1 and offset 0 give that entry.
C12_ListWindow ==
    resp.op = "list" =>
        /\ resp.status = 200
        /\ resp.body.items = Window(saved_emails, resp.body.offset, resp.body.limit)
        /\ resp.body.offset >= Len(saved_emails) => resp.body.items = <<>>
        /\ (Len(saved_emails) = 1 /\ resp.body.limit = 1 /\ resp.body.offset = 0) =>
             resp.body.items = <<saved_emails[1]>>

\* the ids the entries of an archive carry
IdsOf(emails) ==
    {emails[i].id : i \in 1..Len(emails)}

\* one delete_email, as C13 states it
C13_Step ==
    (resp.op # "delete" /\ resp'.op = "delete") =>
        LET email_id == resp'.body.email_id
            again == delete_email(saved_emails', email_id)
        IN  /\ email_id \notin IdsOf(saved_emails) =>
                  (resp'.status = 404 /\ saved_emails' = saved_emails)
            /\ resp'.status = 200 =>
                  (again.resp.status = 404 /\ again.saved_emails = saved_emails')

\* C13: delete_email of an id that no entry of the archive carries answers
\* 404 and leaves the archive as it was; after a delete_email that
\* succeeded, the same delete_email again answers 404.
C13_DeleteAbsentIsNotFound ==
    [][C13_Step]_vars

\* C13 witness: a delete_email of an id the archive once could assign, and
\* that no entry carries now, has been answered 404 on a non-empty archive
C13_Witness ==
    /\ resp.op = "delete"
    /\ resp.status = 404
    /\ resp.body.email_id \in AssignableIds(MaxArchive)
    /\ resp.body.email_id \notin IdsOf(saved_emails)
    /\ Len(saved_emails) >= 2

\* the names of the required fields
RequiredFields ==
    {"sender_company", "target_company", "person_name", "role", "email_subject"}

\* a request with a required field empty
Incomplete(request) ==
    \E field \in RequiredFields : request[field] = ""

\* one step, as C14 states it
C14_Step ==
    /\ \A request \in Requests(RateScope), rnd \in SessionRandInts :
         Incomplete(request) =>
             generate_email_reject(request, rnd, now, rate_file)
               = Response("generate", 400, "All fields are required", NoBody)
    /\ (resp.op # "generate" /\ resp'.op = "generate" /\ resp'.status = 400) =>
         /\ rate_file' = rate_file
         /\ saved_emails' = saved_emails
         /\ accepted' = accepted
         /\ ~inflight'.active
    /\ inflight'.active => ~Incomplete(inflight'.request)

\* C14: a generate request with a required field empty is answered 400
\* whatever the state of the limiter; the step that answers 400 leaves the
\* rate-limit file and the archive as they were and does not reach the
\* provider call; no request with an empty required field reaches it.
C14_IncompleteRequestRejectedFirst ==
    [][C14_Step]_vars

\* C14 witness: a request has been answered 400 while its session stood at
\* the hourly limit
C14_Witness ==
    /\ resp = Response("generate", 400, "All fields are required", NoBody)
    /\ LimiterReply(ClientSession).status = 429
    /\ StoredHourly(rate_file, now, ClientSession) = 5

\* text is content without the whitespace at its two ends
IsTrimOf(text, content) ==
    \E i, j \in 0..Len(content) :
        /\ i + j <= Len(content)
        /\ text = SubSeq(content, i + 1, Len(content) - j)
        /\ \A k \in 1..i : content[k] = Space
        /\ \A k \in (Len(content) - j + 1)..Len(content) : content[k] = Space
        /\ text # <<>> => (text[1] # Space /\ text[Len(text)] # Space)

\* one step, as C15 states it
C15_Step ==
    /\ (inflight.active /\ resp'.op = "generate" /\ resp'.status = 200) =>
         LET request == inflight.request
             last == saved_emails'[Len(saved_emails')]
         IN  /\ resp'.body.subject = request.email_subject
             /\ \E content \in ProviderTexts : IsTrimOf(resp'.body.email_text, content)
             /\ Len(saved_emails') = Len(saved_emails) + 1
             /\ SubSeq(saved_emails', 1, Len(saved_emails)) = saved_emails
             /\ last.recipient = request.person_name
             /\ last.company = request.target_company
             /\ last.subject = request.email_subject
             /\ last.content = resp'.body.email_text
    /\ Len(saved_emails') > Len(saved_emails) =>
         (inflight.active /\ resp'.op = "generate" /\ resp'.status = 200)

\* C15: a complete request under its quota whose provider call returns a
\* text is answered 200 with the submitted subject and the text the
\* provider returned, trimmed; the step appends exactly one entry at the
\* end of the archive with the request's person_name, target_company and
\* email_subject and that text.  No other step adds an entry.
C15_SuccessAppendsOneEntry ==
    [][C15_Step]_vars

\* C15 witness: a generation has been answered 200 and its entry stands at
\* the end of an archive that held two entries before
C15_Witness ==
    /\ resp.op = "generate"
    /\ resp.status = 200
    /\ Len(saved_emails) = 3
    /\ saved_emails[3].content = resp.body.email_text
    /\ resp.body.email_text = <<"Hi", Space, "Dana">>

\* C19: a generate request makes at most one call to the provider, and a
\* call that was made and gave no usable answer is followed by the 500 at
\* once: the handler is never at another call after one it has made.
C19_NoSecondInvocation ==
    /\ inflight.stage = "fallback" => inflight.calls = 0
    /\ resp.body.calls <= 1

\* the companies of the archive, the entries of one, and its first entry
CompaniesOf(emails) ==
    {emails[i].company : i \in 1..Len(emails)}

EntriesOf(emails, company) ==
    {i \in 1..Len(emails) : emails[i].company = company}

FirstOf(emails, company) ==
    CHOOSE i \in EntriesOf(emails, company) : \A j \in EntriesOf(emails, company) : i <= j

\* company c ranks before company d: more entries, or as many and seen first
RanksBefore(emails, c, d) ==
    \/ Cardinality(EntriesOf(emails, c)) > Cardinality(EntriesOf(emails, d))
    \/ /\ Cardinality(EntriesOf(emails, c)) = Cardinality(EntriesOf(emails, d))
       /\ FirstOf(emails, c) < FirstOf(emails, d)

\* C16: top_companies lists distinct companies of the archive, each with
\* the number of its entries, by descending count and, among equal counts,
\* in the order of their first entries; it holds the first 10 of that
\* ranking, all of them when there are fewer.
C16_TopCompanies ==
    resp.op = "analytics" =>
        LET top == resp.body.analytics.top_companies
            all == CompaniesOf(saved_emails)
        IN  /\ Len(top) = Min(10, Cardinality(all))
            /\ \A i \in 1..Len(top) :
                 /\ top[i].company \in all
                 /\ top[i].count = Cardinality(EntriesOf(saved_emails, top[i].company))
                 /\ \A j \in 1..Len(top) : i # j => top[i].company # top[j].company
                 /\ \A c \in all :
                      RanksBefore(saved_emails, c, top[i].company) =>
                          \E j \in 1..(i - 1) : top[j].company = c

\* C16 witness: the analytics of the companies A, B, A, C, B, A
C16_Witness ==
    /\ resp.op = "analytics"
    /\ [i \in 1..Len(saved_emails) |-> saved_emails[i].company]
         = <<"A", "B", "A", "C", "B", "A">>
    /\ resp.body.analytics.top_companies
         = <<[company |-> "A", count |-> 3], [company |-> "B", count |-> 2],
             [company |-> "C", count |-> 1]>>

\* the places of a text where a word begins
WordStarts(text) ==
    {i \in 1..Len(text) : text[i] # Space /\ (i = 1 \/ text[i - 1] = Space)}

RECURSIVE WordsIn(_, _)
WordsIn(emails, n) ==
    IF n = 0 THEN 0
    ELSE Cardinality(WordStarts(emails[n].content)) + WordsIn(emails, n - 1)

\* C17: total_emails is the size of the archive; avg_length is 0 for the
\* empty archive and otherwise the number of words of all entries,
\* divided by the number of entries and rounded down.
C17_AverageLength ==
    resp.op = "analytics" =>
        LET a == resp.body.analytics
            n == Len(saved_emails)
            words == WordsIn(saved_emails, n)
        IN  /\ a.total_emails = n
            /\ n = 0 => a.avg_length = 0
            /\ n > 0 => (a.avg_length * n <= words /\ words < (a.avg_length + 1) * n)

\* C17 witness: the analytics of two entries of 3 and 5 words give 4
C17_Witness ==
    /\ resp.op = "analytics"
    /\ Len(saved_emails) = 2
    /\ Cardinality(WordStarts(saved_emails[1].content)) = 3
    /\ Cardinality(WordStarts(saved_emails[2].content)) = 5
    /\ resp.body.analytics.avg_length = 4
    /\ resp.body.analytics.total_emails = 2

\* the stored buckets that are older than their window at time t
StaleHourly(file, t) ==
    {h \in DOMAIN load_rate_limits(file).hourly :
        SecondsBetween(t, ParseHour(h)) >= HOUR_WINDOW_SECONDS}

StaleDaily(file, t) ==
    {d \in DOMAIN load_rate_limits(file).daily :
        DaysBetween(t, ParseDay(d)) >= DAY_WINDOW_DAYS}

\* the step that accepts a request, as C18 states it; ages are taken at the
\* clock reading of check_rate_limit
C18_Step ==
    (~inflight.active /\ inflight'.active) =>
        /\ StaleHourly(rate_file', now) = {}
        /\ StaleDaily(rate_file', now) = {}

\* C18: once check_rate_limit and increment_rate_limit have run for an
\* accepted request, the stored tables hold no hourly bucket older than
\* 3600 seconds and no daily bucket older than 1 day.
C18_ExpiredBucketsPruned ==
    [][C18_Step]_vars

\* one step, as C20 states it
C20_Step ==
    /\ (resp.op # "generate" /\ resp'.op = "generate" /\ resp'.status = 429) =>
         /\ rate_file' = rate_file
         /\ saved_emails' = saved_emails
         /\ accepted' = accepted
         /\ inflight' = inflight
         /\ ~inflight'.active
    /\ \A session \in AllSessions :
         /\ \A d \in DayLabels :
              CountIn(load_rate_limits(rate_file').daily, d, session) <= 15
         /\ \A h \in HourLabels :
              CountIn(load_rate_limits(rate_file').hourly, h, session) <= 5

\* C20: the step that answers a generate request 429 changes neither the
\* rate-limit file nor the archive and starts no provider call; no stored
\* count of a session ever exceeds the limit of its bucket, 15 for a daily
\* and 5 for an hourly one.
C20_RejectionHasNoEffect ==
    [][C20_Step]_vars

\* C20 witness: a request has been answered 429 and the session's stored
\* counts stand where the limit stopped them
C20_Witness ==
    /\ resp.op = "generate"
    /\ resp.status = 429
    /\ ~inflight.active
    /\ StoredTotals(rate_file, ClientSession) = <<5, 5>>
    /\ saved_emails = <<>>

====
